---------------------------- MODULE Spec2Model ----------------------------
(***************************************************************************)
(* A model of src/common/networks.py (the network modules of the agent)   *)
(* and of the evaluation loop of src/eval.py that reads the attention     *)
(* side channel.                                                           *)
(*                                                                         *)
(* Tensors are tuples (vectors), tuples of tuples (matrices) and so on,    *)
(* indexed from 1.  Tensor entries are integers; where the code divides    *)
(* (a mean, a softmax) the result is an exact rational <<num, den>> in     *)
(* lowest terms with den > 0.                                              *)
(***************************************************************************)
EXTENDS Integers, Sequences, FiniteSets, TLC

VARIABLES
    \* FactorizedNoisyLinear: the layer object, and the last call made on it
    nl, nl_call,
    \* Dueling / DuelingAlt: the head with its sub-modules' outputs, and the call
    dueling, d_call,
    \* SolfAttention: the module (its parameters), and the call
    attention, a_call,
    \* HumanUnderstandableEncoding of an ImpalaCNNLarge, its callers, its history
    hue, h_thr, h_hist,
    \* get_model: its arguments and its outcome
    f_call

vars == <<nl, nl_call, dueling, d_call, attention, a_call, hue, h_thr, h_hist, f_call>>

\* The value of a variable whose component is not part of the program analysed.
Absent == "absent"

----------------------------------------------------------------------------
(* Arithmetic *)

Abs(x)  == IF x < 0 THEN -x ELSE x
Sign(x) == IF x < 0 THEN -1 ELSE IF x > 0 THEN 1 ELSE 0

RECURSIVE GCD(_, _)
GCD(a, b) == IF b = 0 THEN a ELSE GCD(b, a % b)

RECURSIVE SumSeq(_)
SumSeq(s) == IF s = <<>> THEN 0 ELSE Head(s) + SumSeq(Tail(s))

RECURSIVE Pow(_, _)
Pow(b, k) == IF k = 0 THEN 1 ELSE b * Pow(b, k - 1)

\* The rational n/d, d > 0, in lowest terms.
Rat(n, d)  == LET g == GCD(Abs(n), d) IN <<n \div g, d \div g>>
RInt(i)    == <<i, 1>>
\* Sum and difference over the least common denominator
RAdd(p, q) == LET g == GCD(p[2], q[2])
              IN  Rat(p[1] * (q[2] \div g) + q[1] * (p[2] \div g), (p[2] \div g) * q[2])
RSub(p, q) == RAdd(p, <<-q[1], q[2]>>)
RMul(p, q) == Rat(p[1] * q[1], p[2] * q[2])

RECURSIVE RSum(_)
RSum(s) == IF s = <<>> THEN RInt(0) ELSE RAdd(Head(s), RSum(Tail(s)))

\* The function f on 1..n as the tuple of its values (evaluated once)
Tensor(f) == f \o <<>>

Dot(u, v) == SumSeq(Tensor([k \in 1..Len(u) |-> u[k] * v[k]]))

\* torch.full(shape, v) for a vector and a matrix
Vec(n, v)    == Tensor([i \in 1..n |-> v])
Mat(r, c, v) == Tensor([i \in 1..r |-> Tensor([j \in 1..c |-> v])])

----------------------------------------------------------------------------
(* FactorizedNoisyLinear                                                   *)
(*                                                                         *)
(* weight_mu, bias_mu, weight_sigma and bias_sigma are held in units of    *)
(* scale = 1/sqrt(in_features): reset_parameters draws the means from      *)
(* [-scale, scale], that is from [-1, 1] in these units, and sets the      *)
(* sigmas to sigma_0 * scale, that is to sigma_0.  forward is linear in    *)
(* the parameters, so its output is in the same units.                     *)
(*                                                                         *)
(* noise_writer is a history field: which code last wrote the two noise    *)
(* buffers ("empty" for torch.empty, whose content is arbitrary).          *)

MaxFeatures == 2
Features    == 1..MaxFeatures
Sigma0Vals  == {1, 2}
\* What torch.empty may leave in a buffer: any value; two of them here.
EmptyVals   == {0, 7}
\* Draws of torch.randn, kept to signed squares so that sqrt is exact.
RandnVals   == {-1, 4}
\* Draws of init.uniform_(-scale, scale), as seeds of a stream of values.
UniformSeeds == 0..2
InputVals   == {-1, 2}

NoiseOps == {"reset_noise", "disable_noise"}

ISqrt(x) == CHOOSE r \in 0..x : r * r = x

Outer(u, v) == Tensor([i \in 1..Len(u) |-> Tensor([j \in 1..Len(v) |-> u[i] * v[j]])])

\* init.uniform_(tensor, -scale, scale): element k of the stream of draws
UniformDraw(seed, k) == ((seed + k) % 3) - 1

\* F.linear(input, weight, bias) on one input row
Linear(input, weight, bias) ==
    Tensor([i \in 1..Len(bias) |-> Dot(input, weight[i]) + bias[i]])

\* __init__ up to the two register_buffer calls: torch.empty everywhere
EmptyLayer(in_features, out_features, sigma_0, e) ==
    [ in_features    |-> in_features,
      out_features   |-> out_features,
      sigma_0        |-> sigma_0,
      weight_mu      |-> Mat(out_features, in_features, e),
      weight_sigma   |-> Mat(out_features, in_features, e),
      weight_epsilon |-> Mat(out_features, in_features, e),
      bias_mu        |-> Vec(out_features, e),
      bias_sigma     |-> Vec(out_features, e),
      bias_epsilon   |-> Vec(out_features, e),
      noise_writer   |-> "empty" ]

reset_parameters(self, seed) ==
    [ self EXCEPT
        !.weight_mu    = Tensor([i \in 1..self.out_features |->
                            Tensor([j \in 1..self.in_features |->
                               UniformDraw(seed, (i - 1) * self.in_features + j)])]),
        !.bias_mu      = Tensor([i \in 1..self.out_features |->
                            UniformDraw(seed, self.out_features * self.in_features + i)]),
        !.weight_sigma = Mat(self.out_features, self.in_features, self.sigma_0),
        !.bias_sigma   = Vec(self.out_features, self.sigma_0) ]

\* _get_noise on the draw `noise` of torch.randn(size): sgn(x) sqrt(|x|)
get_noise(noise) == Tensor([k \in 1..Len(noise) |-> Sign(noise[k]) * ISqrt(Abs(noise[k]))])

reset_noise_transposed(self, randn_in, randn_out) ==
    LET epsilon_in  == get_noise(randn_in)
        epsilon_out == get_noise(randn_out)
    IN  [ self EXCEPT !.weight_epsilon = Outer(epsilon_in, epsilon_out),
                      !.bias_epsilon   = epsilon_out,
                      !.noise_writer   = "reset_noise" ]

reset_noise(self, randn_in, randn_out) ==
    LET epsilon_in  == get_noise(randn_in)
        epsilon_out == get_noise(randn_out)
    IN  [ self EXCEPT !.weight_epsilon = Outer(epsilon_out, epsilon_in),
                      !.bias_epsilon   = epsilon_out,
                      !.noise_writer   = "reset_noise" ]

disable_noise_weight_only(self) ==
    [ self EXCEPT !.weight_epsilon = Mat(self.out_features, self.in_features, 0),
                  !.noise_writer   = "disable_noise" ]

disable_noise_halving(self) ==
    [ self EXCEPT !.weight_epsilon = Tensor([i \in 1..self.out_features |->
                                        Tensor([j \in 1..self.in_features |->
                                           Sign(self.weight_epsilon[i][j])
                                             * (Abs(self.weight_epsilon[i][j]) \div 2)])]),
                  !.bias_epsilon   = Tensor([i \in 1..self.out_features |->
                                        Sign(self.bias_epsilon[i])
                                          * (Abs(self.bias_epsilon[i]) \div 2)]),
                  !.noise_writer   = "disable_noise" ]

disable_noise(self) ==
    [ self EXCEPT !.weight_epsilon = Mat(self.out_features, self.in_features, 0),
                  !.bias_epsilon   = Vec(self.out_features, 0),
                  !.noise_writer   = "disable_noise" ]

noisy_init_without_noise(in_features, out_features, sigma_0, e, seed, randn_in, randn_out) ==
    reset_parameters(EmptyLayer(in_features, out_features, sigma_0, e), seed)

\* __init__: allocate, then reset_parameters(), then reset_noise()
noisy_init(in_features, out_features, sigma_0, e, seed, randn_in, randn_out) ==
    reset_noise(reset_parameters(EmptyLayer(in_features, out_features, sigma_0, e), seed),
                randn_in, randn_out)

\* forward on one input row
noisy_forward(self, input) ==
    Linear(input,
           Tensor([i \in 1..self.out_features |-> Tensor([j \in 1..self.in_features |->
               self.weight_mu[i][j] + self.weight_sigma[i][j] * self.weight_epsilon[i][j]])]),
           Tensor([i \in 1..self.out_features |->
               self.bias_mu[i] + self.bias_sigma[i] * self.bias_epsilon[i]]))

NLInit ==
    /\ \E in_features \in Features, out_features \in Features,
          sigma_0 \in Sigma0Vals, e \in EmptyVals, seed \in UniformSeeds :
         \E randn_in \in [1..in_features -> RandnVals],
            randn_out \in [1..out_features -> RandnVals] :
            nl = noisy_init(in_features, out_features, sigma_0, e, seed, randn_in, randn_out)
    /\ nl_call = [op |-> "__init__", repeat |-> FALSE, caller_wrote_noise |-> FALSE,
                  input |-> <<>>, output |-> <<>>]
    /\ dueling = Absent /\ d_call = Absent
    /\ attention = Absent /\ a_call = Absent
    /\ hue = Absent /\ h_thr = Absent /\ h_hist = Absent
    /\ f_call = Absent

\* What a caller's call leaves behind: its name, whether it repeats the call
\* before it, whether the caller has called reset_noise or disable_noise so far,
\* its argument and its return value (<<>> for None).
NLCall(op, input, output) ==
    [op |-> op, repeat |-> (nl_call.op = op),
     caller_wrote_noise |-> (nl_call.caller_wrote_noise \/ op \in NoiseOps),
     input |-> input, output |-> output]

NLOthers == <<dueling, d_call, attention, a_call, hue, h_thr, h_hist, f_call>>

NLResetParameters ==
    /\ \E seed \in UniformSeeds : nl' = reset_parameters(nl, seed)
    /\ nl_call' = NLCall("reset_parameters", <<>>, <<>>)
    /\ UNCHANGED NLOthers

NLResetNoise ==
    /\ \E randn_in \in [1..nl.in_features -> RandnVals],
          randn_out \in [1..nl.out_features -> RandnVals] :
          nl' = reset_noise(nl, randn_in, randn_out)
    /\ nl_call' = NLCall("reset_noise", <<>>, <<>>)
    /\ UNCHANGED NLOthers

NLDisableNoise ==
    /\ nl' = disable_noise(nl)
    /\ nl_call' = NLCall("disable_noise", <<>>, <<>>)
    /\ UNCHANGED NLOthers

NLForward ==
    /\ \E input \in [1..nl.in_features -> InputVals] :
          nl_call' = NLCall("forward", input, noisy_forward(nl, input))
    /\ nl' = nl
    /\ UNCHANGED NLOthers

NLNext ==
    \/ NLResetParameters
    \/ NLResetNoise
    \/ NLDisableNoise
    \/ NLForward

SpecNoisy == NLInit /\ [][NLNext]_vars

----------------------------------------------------------------------------
(* Claims about FactorizedNoisyLinear, checked under SpecNoisy *)

\* The values _get_noise can return, and zero (disable_noise)
EpsVals == {Sign(x) * ISqrt(Abs(x)) : x \in RandnVals} \cup {0}

SameNoise == /\ nl'.weight_epsilon = nl.weight_epsilon
             /\ nl'.bias_epsilon = nl.bias_epsilon

SameParameters == /\ nl'.weight_mu = nl.weight_mu
                  /\ nl'.weight_sigma = nl.weight_sigma
                  /\ nl'.bias_mu = nl.bias_mu
                  /\ nl'.bias_sigma = nl.bias_sigma

\* C1: once disable_noise() has been called and no reset_noise() since, what
\* forward(input) returns is F.linear(input, weight_mu, bias_mu), whatever the
\* sigmas are.
C1_DisabledForwardIsPlainLinear ==
    (nl_call.op = "forward" /\ nl.noise_writer = "disable_noise")
        => nl_call.output = Linear(nl_call.input, nl.weight_mu, nl.bias_mu)

\* A forward call on a 2x2 layer with sigma 2 and nonzero means, noise disabled.
C1_Witness ==
    /\ nl_call.op = "forward"
    /\ nl.noise_writer = "disable_noise"
    /\ nl.in_features = 2 /\ nl.out_features = 2
    /\ nl.weight_sigma[1][1] = 2 /\ nl.bias_sigma[2] = 2
    /\ nl.weight_mu[1][1] # 0
    /\ nl_call.output # <<0, 0>>

\* C6 as stated: as long as the caller has called neither reset_noise() nor
\* disable_noise() on a constructed layer, its noise buffers are as torch.empty
\* left them (no reset_noise or disable_noise has written them).
C6_FreshNoiseUninitialized ==
    ~nl_call.caller_wrote_noise => nl.noise_writer = "empty"

\* C6 amended: the noise buffers of a constructed layer have always been written
\* by reset_noise() or disable_noise(); before the caller calls either, they
\* hold what the constructor's own reset_noise() call drew, so every forward
\* reads written noise.
C6_NoiseWrittenByConstructor ==
    /\ nl.noise_writer \in NoiseOps
    /\ ~nl_call.caller_wrote_noise => nl.noise_writer = "reset_noise"

\* A forward call made before the caller's first reset_noise()/disable_noise()
C6_Witness ==
    /\ nl_call.op = "forward"
    /\ ~nl_call.caller_wrote_noise
    /\ nl.noise_writer = "reset_noise"
    /\ nl.bias_epsilon # Vec(nl.out_features, 0)

\* C7 as stated: reset_noise() and disable_noise() are both idempotent: the
\* second of two calls in a row leaves the NoiseState the first one left.
C7_BothIdempotent ==
    [][ (nl_call.op \in NoiseOps /\ nl_call'.op = nl_call.op) => SameNoise ]_vars

\* C7 amended: disable_noise() is idempotent (the second of two calls in a row
\* leaves the all-zero NoiseState the first one left); reset_noise() is not,
\* every call draws the noise anew.
C7_DisableIdempotent ==
    [][ (nl_call.op = "disable_noise" /\ nl_call'.op = "disable_noise")
          => /\ SameNoise
             /\ nl'.weight_epsilon = Mat(nl.out_features, nl.in_features, 0)
             /\ nl'.bias_epsilon = Vec(nl.out_features, 0) ]_vars

\* disable_noise() called twice in a row
C7_Witness ==
    /\ nl_call.op = "disable_noise" /\ nl_call.repeat
    /\ nl.bias_epsilon = Vec(nl.out_features, 0)

C8_Shapes ==
    /\ DOMAIN nl.weight_epsilon = 1..nl.out_features
    /\ \A i \in 1..nl.out_features : DOMAIN nl.weight_epsilon[i] = 1..nl.in_features
    /\ DOMAIN nl.bias_epsilon = 1..nl.out_features

C8_Factorized ==
    \E e_in \in [1..nl.in_features -> EpsVals] :
        \A i \in 1..nl.out_features, j \in 1..nl.in_features :
            nl.weight_epsilon[i][j] = nl.bias_epsilon[i] * e_in[j]

C8_Frame ==
    /\ nl_call'.op \in {"forward", "reset_parameters"} => SameNoise
    /\ nl_call'.op \in NoiseOps => SameParameters
    /\ ~SameNoise => nl_call'.op \in NoiseOps

\* C8: in every state reached by reset_noise(), disable_noise(),
\* reset_parameters() and forward() calls the noise buffers have the shapes
\* (out_features x in_features) and (out_features) and weight_epsilon is the
\* outer product of bias_epsilon and some input-noise vector; forward() and
\* reset_parameters() leave the noise as it is, only reset_noise() and
\* disable_noise() change it, and these two leave the mus and sigmas as they are.
C8_FactorizedNoise ==
    [](C8_Shapes /\ C8_Factorized) /\ [][C8_Frame]_vars

\* A non-square layer holding nonzero drawn noise after a forward call
C8_Witness ==
    /\ nl_call.op = "forward"
    /\ nl.in_features = 2 /\ nl.out_features = 1
    /\ nl.noise_writer = "reset_noise"
    /\ nl.weight_epsilon = <<<<-2, 4>>>>
    /\ nl.bias_epsilon = <<2>>

----------------------------------------------------------------------------
(* Dueling and DuelingAlt                                                  *)
(*                                                                         *)
(* The sub-modules of a head (value_branch and advantage_branch, or the   *)
(* Sequential main of l1 and l2) are constructor arguments; a call is      *)
(* modelled from what they return on the flattened input: `value` of shape *)
(* (batch, 1) and `advantages` of shape (batch, actions), or `res` of      *)
(* shape (batch, 1 + actions).  What forward returns is a matrix of        *)
(* rationals.                                                              *)

MaxBatch   == 2
MaxActions == 2
\* Entries of the sub-modules' outputs, and the constants added to a row
BranchVals == {-1, 2}
ShiftVals  == {-1, 3}

RowsOf(batch, width) == [1..batch -> [1..width -> BranchVals]]

mean_over_batch_and_actions(advantages) ==
    LET total == SumSeq(Tensor([b \in 1..Len(advantages) |-> SumSeq(advantages[b])]))
    IN  Tensor([b \in 1..Len(advantages) |->
            <<Rat(total, Len(advantages) * Len(advantages[1]))>>])

\* torch.mean(advantages, dim=1, keepdim=True): shape (batch, 1)
mean_dim1(advantages) ==
    Tensor([b \in 1..Len(advantages) |-> <<Rat(SumSeq(advantages[b]), Len(advantages[b]))>>])

\* value + (advantages - torch.mean(advantages, dim=1, keepdim=True)), the
\* (batch, 1) operands broadcast over the actions
combine(value, advantages) ==
    LET mean == mean_dim1(advantages)
    IN  Tensor([b \in 1..Len(advantages) |-> Tensor([a \in 1..Len(advantages[b]) |->
            RAdd(RInt(value[b][1]), RSub(RInt(advantages[b][a]), mean[b][1]))])])

AsRationals(m) == Tensor([b \in 1..Len(m) |-> Tensor([a \in 1..Len(m[b]) |-> RInt(m[b][a])])])

\* Dueling.forward, given what the two branches return on flatten(x)
dueling_forward(value, advantages, advantages_only) ==
    IF advantages_only THEN AsRationals(advantages)
    ELSE combine(value, advantages)

\* DuelingAlt.forward, given res = self.main(x)
dueling_alt_forward(res, advantages_only) ==
    LET advantages == Tensor([b \in 1..Len(res) |-> Tail(res[b])])
        value      == Tensor([b \in 1..Len(res) |-> SubSeq(res[b], 1, 1)])
    IN  combine(value, advantages)

\* forward of the head `kind` on the sub-module outputs `sub`
head_forward(kind, sub, advantages_only) ==
    IF kind = "Dueling"
    THEN dueling_forward(sub.value, sub.advantages, advantages_only)
    ELSE dueling_alt_forward(sub.res, advantages_only)

\* The sub-module outputs with c added to every advantage of batch row r
Shifted(kind, sub, r, c) ==
    IF kind = "Dueling"
    THEN [sub EXCEPT !.advantages[r] = Tensor([a \in 1..Len(@) |-> @[a] + c])]
    ELSE [sub EXCEPT !.res[r] = Tensor([k \in 1..Len(@) |-> IF k = 1 THEN @[k] ELSE @[k] + c])]

DInit ==
    /\ dueling \in {[kind |-> "Dueling"], [kind |-> "DuelingAlt"]}
    /\ \E batch \in 1..MaxBatch, actions \in 1..MaxActions, only \in BOOLEAN :
         \E value \in RowsOf(batch, 1), advantages \in RowsOf(batch, actions) :
            d_call = [pc |-> "ready", advantages_only |-> only,
                      sub |-> IF dueling.kind = "Dueling"
                              THEN [value |-> value, advantages |-> advantages]
                              ELSE [res |-> Tensor([b \in 1..batch |-> value[b] \o advantages[b]])],
                      out |-> <<>>, shift |-> <<>>]
    /\ nl = Absent /\ nl_call = Absent
    /\ attention = Absent /\ a_call = Absent
    /\ hue = Absent /\ h_thr = Absent /\ h_hist = Absent
    /\ f_call = Absent

DOthers == <<nl, nl_call, attention, a_call, hue, h_thr, h_hist, f_call>>

DuelingForward ==
    /\ dueling.kind = "Dueling"
    /\ d_call.pc = "ready"
    /\ d_call' = [d_call EXCEPT
                    !.pc = "done",
                    !.out = dueling_forward(d_call.sub.value, d_call.sub.advantages,
                                            d_call.advantages_only)]
    /\ UNCHANGED <<dueling, DOthers>>

DuelingAltForward ==
    /\ dueling.kind = "DuelingAlt"
    /\ d_call.pc = "ready"
    /\ d_call' = [d_call EXCEPT
                    !.pc = "done",
                    !.out = dueling_alt_forward(d_call.sub.res, d_call.advantages_only)]
    /\ UNCHANGED <<dueling, DOthers>>

\* A second forward call, on an input for which the advantage stream returns
\* the advantages of the first call with c added along batch row r.
ShiftedForward ==
    /\ d_call.pc = "done"
    /\ \E r \in 1..Len(d_call.out), c \in ShiftVals :
         LET sub == Shifted(dueling.kind, d_call.sub, r, c)
         IN  d_call' = [d_call EXCEPT
                          !.pc = "shifted",
                          !.sub = sub,
                          !.out = head_forward(dueling.kind, sub, d_call.advantages_only),
                          !.shift = <<r, c>>]
    /\ UNCHANGED <<dueling, DOthers>>

DNext ==
    \/ DuelingForward
    \/ DuelingAltForward
    \/ ShiftedForward

SpecDueling == DInit /\ [][DNext]_vars

----------------------------------------------------------------------------
(* Claims about the dueling heads, checked under SpecDueling *)

\* The value and the advantages of batch row b, as the head takes them from
\* its sub-modules' outputs `sub`
ValueOf(sub, b) ==
    IF dueling.kind = "Dueling" THEN sub.value[b][1] ELSE sub.res[b][1]
AdvantagesOf(sub, b) ==
    IF dueling.kind = "Dueling" THEN sub.advantages[b] ELSE Tail(sub.res[b])

\* Q = V + (A - mean of A over the actions) for batch row b
QRow(sub, b) ==
    LET A == AdvantagesOf(sub, b)
    IN  Tensor([a \in 1..Len(A) |->
            RSub(RAdd(RInt(ValueOf(sub, b)), RInt(A[a])), Rat(SumSeq(A), Len(A)))])

\* C3: for both heads, forward(features, advantages_only=True) returns the raw
\* advantages, and forward(features, advantages_only=False) returns
\* Q = V + (A - mean of A over the actions).
C3_AdvantagesOnlyReturnsAdvantages ==
    d_call.pc = "done" =>
        \A b \in 1..Len(d_call.out) :
            d_call.out[b] = IF d_call.advantages_only
                            THEN Tensor([a \in 1..Len(AdvantagesOf(d_call.sub, b)) |->
                                     RInt(AdvantagesOf(d_call.sub, b)[a])])
                            ELSE QRow(d_call.sub, b)

\* C4: adding a constant c to every advantage of one batch row leaves the Q
\* that forward(.., advantages_only=False) returns unchanged, in that row and
\* in every other row.
C4_ShiftInvariance ==
    [][ ( /\ d_call.pc = "done" /\ d_call'.pc = "shifted"
          /\ ~d_call'.advantages_only
          /\ \A b \in 1..Len(d_call.out) :
                /\ ValueOf(d_call'.sub, b) = ValueOf(d_call.sub, b)
                /\ AdvantagesOf(d_call'.sub, b) =
                     Tensor([a \in 1..Len(AdvantagesOf(d_call.sub, b)) |->
                        AdvantagesOf(d_call.sub, b)[a]
                          + (IF b = d_call'.shift[1] THEN d_call'.shift[2] ELSE 0)]) )
        => d_call'.out = d_call.out ]_vars

\* A two-row batch whose second row was shifted by 3, with a fractional mean
C4_Witness ==
    /\ d_call.pc = "shifted"
    /\ ~d_call.advantages_only
    /\ d_call.shift = <<2, 3>>
    /\ Len(d_call.out) = 2
    /\ Len(d_call.out[1]) = 2
    /\ \E a \in 1..2 : d_call.out[1][a][2] = 2

----------------------------------------------------------------------------
(* SolfAttention                                                           *)
(*                                                                         *)
(* exp is taken to the integer base ExpBase instead of e, which keeps the  *)
(* softmax weights exact rationals: for integer scores s, the weight of    *)
(* location l is ExpBase^(s[l] - m) / sum over l' of ExpBase^(s[l'] - m)   *)
(* with m the least score (softmax does not depend on the shift m).        *)

ExpBase      == 2
MaxLocations == 2
\* The largest number of entries of a features tensor
MaxEntries   == 8
FeaturesDims  == {1, 2}
AttentionDims == {1, 2}
FeatureVals   == {-1, 2}

Relu(x) == IF x > 0 THEN x ELSE 0

Min(S) == CHOOSE x \in S : \A y \in S : x <= y

\* nn.Linear(in_features, out_features): default initialisation, a stream of
\* uniform draws, then the bias
linear_init(in_features, out_features, seed) ==
    [ weight |-> Tensor([i \in 1..out_features |-> Tensor([j \in 1..in_features |->
                     UniformDraw(seed, (i - 1) * in_features + j)])]),
      bias   |-> Tensor([i \in 1..out_features |->
                     UniformDraw(seed, out_features * in_features + i)]) ]

\* SolfAttention.__init__
attention_init(features_dim, attention_dim, seed) ==
    [ encoder_att |-> linear_init(features_dim, attention_dim, seed),
      full_att    |-> linear_init(attention_dim, 1, seed + 1) ]

\* ExpBase^(s - m) for every score s of a row, m the least of them
Exps(row) ==
    Tensor([l \in 1..Len(row) |-> Pow(ExpBase, row[l] - Min({row[k] : k \in 1..Len(row)}))])

Normalized(e) == Tensor([l \in 1..Len(e) |-> Rat(e[l], SumSeq(e))])

Transposed(m) == Tensor([j \in 1..Len(m[1]) |-> Tensor([i \in 1..Len(m) |-> m[i][j]])])

SoftmaxRows(att) == Tensor([b \in 1..Len(att) |-> Normalized(Exps(att[b]))])

softmax_dim0(att) == Transposed(SoftmaxRows(Transposed(att)))

\* nn.Softmax(dim=1) on a (batch, locations) tensor
softmax_dim1(att) == SoftmaxRows(att)

\* The scores: full_att(relu(encoder_att(features))).squeeze(2)
ReluVec(v) == Tensor([d \in 1..Len(v) |-> Relu(v[d])])

attention_scores(self, features) ==
    Tensor([b \in 1..Len(features) |-> Tensor([l \in 1..Len(features[b]) |->
        Linear(ReluVec(Linear(features[b][l],
                              self.encoder_att.weight, self.encoder_att.bias)),
               self.full_att.weight, self.full_att.bias)[1]])])

\* features * alpha.unsqueeze(2)
weighted(features, alpha) ==
    Tensor([b \in 1..Len(features) |-> Tensor([l \in 1..Len(features[b]) |->
        Tensor([c \in 1..Len(features[b][l]) |-> RMul(RInt(features[b][l][c]), alpha[b][l])])])])

AttentionResult(features, alpha) ==
    [ attention_weighted_encoding |-> weighted(features, alpha), alpha |-> alpha ]

\* SolfAttention.forward: (attention_weighted_encoding, alpha)
attention_forward(self, features) ==
    AttentionResult(features, softmax_dim1(attention_scores(self, features)))

FeatureShapes ==
    {sh \in (1..MaxBatch) \X (1..MaxLocations) \X FeaturesDims :
        sh[1] * sh[2] * sh[3] <= MaxEntries}

AInit ==
    /\ \E features_dim \in FeaturesDims, attention_dim \in AttentionDims,
          seed \in UniformSeeds :
          /\ attention = attention_init(features_dim, attention_dim, seed)
          /\ \E sh \in FeatureShapes :
                /\ sh[3] = features_dim
                /\ \E features \in [1..sh[1] -> [1..sh[2] -> [1..sh[3] -> FeatureVals]]] :
                      a_call = [pc |-> "ready", features |-> features, ret |-> <<>>]
    /\ nl = Absent /\ nl_call = Absent
    /\ dueling = Absent /\ d_call = Absent
    /\ hue = Absent /\ h_thr = Absent /\ h_hist = Absent
    /\ f_call = Absent

AForward ==
    /\ a_call.pc = "ready"
    /\ a_call' = [a_call EXCEPT !.pc = "done",
                                !.ret = attention_forward(attention, a_call.features)]
    /\ UNCHANGED <<attention, nl, nl_call, dueling, d_call, hue, h_thr, h_hist, f_call>>

ANext == AForward

SpecAttention == AInit /\ [][ANext]_vars

----------------------------------------------------------------------------
(* Claim about SolfAttention, checked under SpecAttention *)

----------------------------------------------------------------------------
(* HumanUnderstandableEncoding, as the HUE of an ImpalaCNNLarge             *)
(*                                                                         *)
(* An image tensor x is indexed x[b][c][h][w].  The convolution weights    *)
(* are the values left by __init__, that is after the multiplication by    *)
(* relu_gain; they are integers here.  The attention of the code has       *)
(* attention_dim 512; here it has one of AttentionDims.                    *)

\* Pixel values of the input images; an image is a row of 6 x 6 patches,
\* one per location of the encoded map, each patch of one pixel value.
PixelVals  == {0, 2}
\* conv1 (kernel 3, stride 3) then conv2 (kernel 2, stride 2) map a square of
\* this side to one location
PatchSide  == 3 * 2

\* nn.Conv2d(in_channels, out_channels, kernel_size): the weight tensor as a
\* stream of draws, and the zero bias that __init__ fills in
conv_init(in_channels, out_channels, kernel_size, seed) ==
    [ weight |-> Tensor([o \in 1..out_channels |-> Tensor([c \in 1..in_channels |->
                    Tensor([di \in 1..kernel_size |-> Tensor([dj \in 1..kernel_size |->
                        ((seed + o + c * di * dj) % 3) - 1])])])]),
      bias   |-> Vec(out_channels, 0) ]

\* nn.Conv2d forward with kernel_size k, stride k, padding 0
conv2d(conv, k, x) ==
    Tensor([b \in 1..Len(x) |-> Tensor([o \in 1..Len(conv.weight) |->
      Tensor([i \in 1..(((Len(x[1][1]) - k) \div k) + 1) |->
        Tensor([j \in 1..(((Len(x[1][1][1]) - k) \div k) + 1) |->
           conv.bias[o]
           + SumSeq(Tensor([c \in 1..Len(x[b]) |->
               SumSeq(Tensor([di \in 1..k |->
                 SumSeq(Tensor([dj \in 1..k |->
                   conv.weight[o][c][di][dj]
                     * x[b][c][(i - 1) * k + di][(j - 1) * k + dj]]))]))]))])])])])

\* F.relu on an image tensor
relu4(x) ==
    Tensor([b \in 1..Len(x) |-> Tensor([c \in 1..Len(x[b]) |-> Tensor([h \in 1..Len(x[b][c]) |->
        Tensor([w \in 1..Len(x[b][c][h]) |-> Relu(x[b][c][h][w])])])])])

\* HumanUnderstandableEncoding.__init__
hue_init(num_inputs, channels_step, attention_dim, seed) ==
    [ conv1     |-> conv_init(num_inputs, channels_step, 3, seed),
      conv2     |-> conv_init(channels_step, 2 * channels_step, 2, seed + 1),
      conv3     |-> conv_init(2 * channels_step, 2 * channels_step, 1, seed + 2),
      attention |-> attention_init(2 * channels_step, attention_dim, seed),
      att       |-> <<>> ]

\* forward, the three convolutions: x of shape (batch, channels, H, W)
hue_convs(self, input) ==
    relu4(conv2d(self.conv3, 1,
        relu4(conv2d(self.conv2, 2,
            relu4(conv2d(self.conv1, 3, input))))))

\* x.permute(0,2,3,1).view(batch_size, -1, features_dim)
to_locations(x) ==
    Tensor([b \in 1..Len(x) |-> Tensor([l \in 1..(Len(x[1][1]) * Len(x[1][1][1])) |->
        Tensor([c \in 1..Len(x[b]) |->
            x[b][c][((l - 1) \div Len(x[1][1][1])) + 1][((l - 1) % Len(x[1][1][1])) + 1]])])])

\* y.reshape(originalshape).permute(0,3,1,2), originalshape that of x permuted
from_locations(y, x) ==
    Tensor([b \in 1..Len(x) |-> Tensor([c \in 1..Len(x[b]) |->
        Tensor([h \in 1..Len(x[b][c]) |-> Tensor([w \in 1..Len(x[b][c][h]) |->
            y[b][(h - 1) * Len(x[b][c][h]) + w][c]])])])])

HueLocals(x, ret) ==
    [ x |-> from_locations(ret.attention_weighted_encoding, x), att |-> ret.alpha ]

HueAttend(self, x) == HueLocals(x, attention_forward(self.attention, to_locations(x)))

\* forward up to, not including, the assignment self.att = att: the locals x
\* (what forward is about to return) and att
hue_locals(self, input) == HueAttend(self, hue_convs(self, input))

\* An image of one channel: `patches` gives the pixel value of each patch
Image(patches) ==
    << << Tensor([h \in 1..PatchSide |-> Tensor([w \in 1..(PatchSide * Len(patches)) |->
              patches[((w - 1) \div PatchSide) + 1]])]) >> >>

Images == UNION {{Image(p) : p \in [1..n -> PixelVals]} : n \in 1..MaxLocations}

hue_store_first_only(self, att) ==
    IF self.att = <<>> THEN [self EXCEPT !.att = att] ELSE self

hue_store_nothing(self, att) == self

\* self.att = att
hue_store(self, att) == [self EXCEPT !.att = att]

\* rainbow.q_policy.HUE.att.cpu() of the evaluation loop: a list, which the
\* attribute holds before the first forward, has no method cpu
att_cpu(self) == IF self.att = <<>> THEN "AttributeError" ELSE self.att

----------------------------------------------------------------------------
(* One caller of the large backbone: forward calls, and reads of HUE.att.  *)
(* ImpalaCNNLarge.forward calls self.HUE(x) first; what it does with the   *)
(* result (AFE, dueling) touches neither HUE.att nor the parameters and is *)
(* not modelled.  h_hist is history: the input of the last call, and       *)
(* whether that call replaced different weights of an earlier call.        *)

HInit ==
    /\ \E attention_dim \in AttentionDims, seed \in UniformSeeds :
          hue = hue_init(1, 1, attention_dim, seed)
    /\ h_thr = [ret |-> <<>>, read |-> <<>>]
    /\ h_hist = [input |-> <<>>, overwrote |-> FALSE]
    /\ nl = Absent /\ nl_call = Absent
    /\ dueling = Absent /\ d_call = Absent
    /\ attention = Absent /\ a_call = Absent
    /\ f_call = Absent

HOthers == <<nl, nl_call, dueling, d_call, attention, a_call, f_call>>

\* HumanUnderstandableEncoding.forward(input), called by ImpalaCNNLarge.forward
HForward ==
    /\ \E input \in Images :
          LET locals == hue_locals(hue, input)
          IN  /\ hue' = hue_store(hue, locals.att)
              /\ h_thr' = [h_thr EXCEPT !.ret = locals.x]
              /\ h_hist' = [input |-> input,
                            overwrote |-> hue.att # <<>> /\ hue.att # locals.att]
    /\ UNCHANGED HOthers

\* The evaluation loop's read of the side channel; `after` records whether a
\* forward call came before it
HReadAtt ==
    /\ h_thr' = [h_thr EXCEPT !.read = [value |-> att_cpu(hue),
                                        after |-> h_hist.input # <<>>]]
    /\ UNCHANGED <<hue, h_hist, HOthers>>

HNext ==
    \/ HForward
    \/ HReadAtt

SpecHUE == HInit /\ [][HNext]_vars

----------------------------------------------------------------------------
(* Two callers of forward on the same ImpalaCNNLarge, each followed by its *)
(* read of HUE.att.  A forward call computes on locals, assigns self.att   *)
(* and returns; the callers' steps interleave.  h_hist is history: the     *)
(* caller whose assignment to self.att was the last (0: none yet).         *)

Callers == {1, 2}

CInit ==
    /\ \E attention_dim \in AttentionDims, seed \in UniformSeeds :
          hue = hue_init(1, 1, attention_dim, seed)
    /\ h_thr = [t \in Callers |->
                  [pc |-> "call", input |-> <<>>, x |-> <<>>, att |-> <<>>,
                   ret |-> <<>>, read |-> <<>>]]
    /\ h_hist = [writer |-> 0]
    /\ nl = Absent /\ nl_call = Absent
    /\ dueling = Absent /\ d_call = Absent
    /\ attention = Absent /\ a_call = Absent
    /\ f_call = Absent

\* forward(input) up to `x = x.permute(0,3,1,2)`: the locals x and att
CCompute(t) ==
    /\ h_thr[t].pc = "call"
    /\ \E input \in Images :
          LET locals == hue_locals(hue, input)
          IN  h_thr' = [h_thr EXCEPT ![t] = [@ EXCEPT !.pc = "computed",
                                                       !.input = input,
                                                       !.x = locals.x,
                                                       !.att = locals.att]]
    /\ UNCHANGED <<hue, h_hist, HOthers>>

\* self.att = att
CStore(t) ==
    /\ h_thr[t].pc = "computed"
    /\ hue' = hue_store(hue, h_thr[t].att)
    /\ h_thr' = [h_thr EXCEPT ![t].pc = "stored"]
    /\ h_hist' = [writer |-> t]
    /\ UNCHANGED HOthers

\* return x, and the rest of ImpalaCNNLarge.forward
CReturn(t) ==
    /\ h_thr[t].pc = "stored"
    /\ h_thr' = [h_thr EXCEPT ![t] = [@ EXCEPT !.pc = "returned", !.ret = h_thr[t].x]]
    /\ UNCHANGED <<hue, h_hist, HOthers>>

\* The caller's read of HUE.att after its forward call has returned
CReadAtt(t) ==
    /\ h_thr[t].pc = "returned"
    /\ h_thr' = [h_thr EXCEPT ![t] = [@ EXCEPT !.pc = "done",
                                               !.read = [value |-> att_cpu(hue),
                                                         writer |-> h_hist.writer]]]
    /\ UNCHANGED <<hue, h_hist, HOthers>>

CNext ==
    \E t \in Callers :
        \/ CCompute(t)
        \/ CStore(t)
        \/ CReturn(t)
        \/ CReadAtt(t)

SpecHUEConcurrent == CInit /\ [][CNext]_vars

----------------------------------------------------------------------------
(* Claims about the attention side channel *)

\* The attention weights that forward computes from `input`
WeightsOf(input) ==
    softmax_dim1(attention_scores(hue.attention, to_locations(hue_convs(hue, input))))

\* C9 (under SpecHUE): before the first forward call att is the empty list,
\* and reading it as a tensor fails; after at least one call att holds the
\* weights computed by the most recent call, the returned tensor is the
\* reweighted feature map and not the weights, and a read made after a forward
\* call yields a weights tensor.
C9_AttIsLatestWeights ==
    /\ h_hist.input = <<>> => hue.att = <<>>
    /\ h_hist.input # <<>> =>
          /\ hue.att = WeightsOf(h_hist.input)
          /\ h_thr.ret = from_locations(
                             weighted(to_locations(hue_convs(hue, h_hist.input)), hue.att),
                             hue_convs(hue, h_hist.input))
          /\ h_thr.ret # hue.att
    /\ h_thr.read # <<>> =>
          (h_thr.read.value = "AttributeError" <=> ~h_thr.read.after)

\* A call that replaced the different weights of an earlier call, then a read
C9_Witness ==
    /\ h_hist.overwrote
    /\ h_thr.read # <<>>
    /\ h_thr.read.after
    /\ h_thr.read.value = hue.att

\* C10 as stated (under SpecHUEConcurrent): whenever a caller reads HUE.att
\* after its own forward call has returned, it reads the weights computed
\* from its own input.
C10_ReadsOwnWeights ==
    \A t \in Callers :
        h_thr[t].pc = "done" => h_thr[t].read.value = WeightsOf(h_thr[t].input)

\* C10 amended: a caller that reads HUE.att after its own forward call has
\* returned reads the weights computed from the input of the forward call
\* whose assignment to att was the last before the read (a tensor, never the
\* empty list): its own input if no other caller's assignment came in
\* between, the other caller's otherwise.
C10_ReadsLastWriterWeights ==
    \A t \in Callers :
        h_thr[t].pc = "done" =>
            /\ h_thr[t].read.writer \in Callers
            /\ h_thr[h_thr[t].read.writer].pc \in {"stored", "returned", "done"}
            /\ h_thr[t].read.value # "AttributeError"
            /\ h_thr[t].read.value = WeightsOf(h_thr[h_thr[t].read.writer].input)

\* A caller that read the other caller's weights, which differ from its own
C10_Witness ==
    /\ h_thr[1].pc = "done"
    /\ h_thr[1].read.writer = 2
    /\ h_thr[1].read.value = WeightsOf(h_thr[2].input)
    /\ h_thr[1].read.value # WeightsOf(h_thr[1].input)

----------------------------------------------------------------------------
(* get_model.  A str is the tuple of its characters.                       *)

MaxSuffix == 2

Digits       == <<"0", "1", "2", "3", "4", "5", "6", "7", "8", "9">>
Whitespace   == {" "}
SuffixChars  == {"1", "2", "-", " ", "x"}
SpectralNorms == {"none", "last", "all", "False"}

nature       == <<"n", "a", "t", "u", "r", "e">>
dueling_str  == <<"d", "u", "e", "l", "i", "n", "g">>
impala_small == <<"i", "m", "p", "a", "l", "a", "_", "s", "m", "a", "l", "l">>
impala_large == <<"i", "m", "p", "a", "l", "a", "_", "l", "a", "r", "g", "e", ":">>
not_a_model  == <<"n", "o", "t", "_", "a", "_", "m", "o", "d", "e", "l">>

\* str.startswith(prefix)
startswith(str, prefix) ==
    /\ Len(str) >= Len(prefix)
    /\ SubSeq(str, 1, Len(prefix)) = prefix

\* str[13:]
slice_from(str, start) == SubSeq(str, start + 1, Len(str))

IsDigit(c) == \E i \in 1..Len(Digits) : Digits[i] = c
DigitValue(c) == (CHOOSE i \in 1..Len(Digits) : Digits[i] = c) - 1

RECURSIVE lstrip(_)
lstrip(str) ==
    IF str # <<>> /\ Head(str) \in Whitespace THEN lstrip(Tail(str)) ELSE str

RECURSIVE rstrip(_)
rstrip(str) ==
    IF str # <<>> /\ str[Len(str)] \in Whitespace
    THEN rstrip(SubSeq(str, 1, Len(str) - 1)) ELSE str

\* The digits of an int literal: a digit, then digits each optionally preceded
\* by one underscore
RECURSIVE IsDigitString(_)
IsDigitString(str) ==
    /\ str # <<>>
    /\ IsDigit(Head(str))
    /\ \/ Len(str) = 1
       \/ IF str[2] = "_" THEN IsDigitString(slice_from(str, 2))
                          ELSE IsDigitString(Tail(str))

RECURSIVE DigitStringValue(_, _)
DigitStringValue(str, acc) ==
    IF str = <<>> THEN acc
    ELSE IF Head(str) = "_" THEN DigitStringValue(Tail(str), acc)
    ELSE DigitStringValue(Tail(str), (10 * acc) + DigitValue(Head(str)))

\* int(str): surrounding whitespace, an optional sign, decimal digits; anything
\* else raises ValueError
int(str) ==
    LET body   == rstrip(lstrip(str))
        signed == body # <<>> /\ Head(body) \in {"+", "-"}
        digits == IF signed THEN Tail(body) ELSE body
    IN  IF IsDigitString(digits)
        THEN [kind  |-> "return",
              value |-> IF signed /\ Head(body) = "-"
                        THEN 0 - DigitStringValue(digits, 0)
                        ELSE DigitStringValue(digits, 0)]
        ELSE [kind |-> "raise", value |-> "ValueError"]

\* get_model(model_str, spectral_norm): a function whose if chain matches no
\* branch falls off its end and returns None
get_model(model_str, spectral_norm) ==
    IF model_str = nature THEN [kind |-> "return", value |-> "NatureCNN"]
    ELSE IF model_str = dueling_str
    THEN [kind |-> "return", value |-> "DuelingNatureCNN"]
    ELSE IF model_str = impala_small
    THEN [kind |-> "return", value |-> "ImpalaCNNSmall"]
    ELSE IF startswith(model_str, impala_large)
    THEN IF int(slice_from(model_str, 13)).kind = "raise"
         THEN int(slice_from(model_str, 13))
         ELSE [kind  |-> "return",
               value |-> [func          |-> "ImpalaCNNLarge",
                          model_size    |-> int(slice_from(model_str, 13)).value,
                          spectral_norm |-> spectral_norm]]
    ELSE [kind |-> "return", value |-> "None"]

Suffixes == UNION {[1..n -> SuffixChars] : n \in 0..MaxSuffix}

ModelStrs ==
    {nature, dueling_str, impala_small, not_a_model, <<>>,
     SubSeq(impala_large, 1, 12), nature \o <<" ">>}
    \cup {impala_large \o suffix : suffix \in Suffixes}

FInit ==
    /\ f_call = [pc |-> "ready", model_str |-> <<>>, spectral_norm |-> "none",
                 result |-> <<>>]
    /\ nl = Absent /\ nl_call = Absent
    /\ dueling = Absent /\ d_call = Absent
    /\ attention = Absent /\ a_call = Absent
    /\ hue = Absent /\ h_thr = Absent /\ h_hist = Absent

FOthers == <<nl, nl_call, dueling, d_call, attention, a_call, hue, h_thr, h_hist>>

\* One selection: get_model(model_str, spectral_norm) returns or raises
FGetModel ==
    /\ \E model_str \in ModelStrs, spectral_norm \in SpectralNorms :
          f_call' = [pc |-> "done", model_str |-> model_str,
                     spectral_norm |-> spectral_norm,
                     result |-> get_model(model_str, spectral_norm)]
    /\ UNCHANGED FOthers

FNext == FGetModel

SpecFactory == FInit /\ [][FNext]_vars

\* A model_str that names a configuration: one of the three names, or
\* 'impala_large:' followed by an integer
Recognized(model_str) ==
    \/ model_str \in {nature, dueling_str, impala_small}
    \/ /\ startswith(model_str, impala_large)
       /\ int(slice_from(model_str, 13)).kind = "return"

\* C2 (under SpecFactory): for every model_str that is not 'nature',
\* 'dueling', 'impala_small' or 'impala_large:<k>', get_model raises at
\* selection time; it never returns a value for an unmatched string.
C2_UnmatchedRaises ==
    (f_call.pc = "done" /\ ~Recognized(f_call.model_str))
        => f_call.result.kind = "raise"

=============================================================================
